---- MODULE Spec2Model ----
(***************************************************************************)
(* leave_delete_guard_plugin: the guarded leave-group / delete-friend      *)
(* executor (core.py) and the planner action and /ldg command handlers     *)
(* that drive it (plugin.py).                                              *)
(*                                                                         *)
(* Python strings are sequences of one-character strings, so that strip(), *)
(* lower() and split() are computed rather than assumed.  Python's None is *)
(* the value None below; an Optional[bool] is <<>> (None) or <<b>>.        *)
(***************************************************************************)
EXTENDS Integers, Sequences, FiniteSets, Bags, TLC

VARIABLES
    runtimeOverride,   \* plugin.py _RUNTIME_DRY_RUN_OVERRIDE
    plugin_config,     \* the host-supplied plugin configuration
    inflight,          \* bag of coroutines suspended in `await caller(...)`: their locals
    lastEvent,         \* the handler step taken last: its inputs and what it returned
    coreInput          \* arguments of a direct call of execute_guard_action

vars == <<runtimeOverride, plugin_config, inflight, lastEvent, coreInput>>

----------------------------------------------------------------------------
(* Bounds *)

\* evaluations that may be suspended in their remote call at the same time
MaxInFlight == 2

----------------------------------------------------------------------------
(* String literals *)

None == <<"<None>">>

S_leave == <<"l", "e", "a", "v", "e">>
S_delete == <<"d", "e", "l", "e", "t", "e">>
S_cautious == <<"c", "a", "u", "t", "i", "o", "u", "s">>
S_normal == <<"n", "o", "r", "m", "a", "l">>
S_LeavePadded == <<" ", "L", "e", "a", "v", "e", " ">>
S_DELETE == <<"D", "E", "L", "E", "T", "E">>
S_kick == <<"k", "i", "c", "k">>
S_strict == <<"s", "t", "r", "i", "c", "t">>
S_CautiousPadded == <<" ", "C", "a", "u", "t", "i", "o", "u", "s", " ">>
S_NormalPadded == <<" ", "N", "o", "r", "m", "a", "l", " ">>
S_blank == <<" ", " ">>
S_abcPadded == <<" ", "a", "b", "c", " ">>
S_abcd == <<"a", "b", "c", "d">>
S_planner == <<"p", "l", "a", "n", "n", "e", "r">>
S_command == <<"c", "o", "m", "m", "a", "n", "d">>
S_commandColon == <<"c", "o", "m", "m", "a", "n", "d", ":">>
S_u1 == <<"u", "1">>
S_u2 == <<"u", "2">>
S_u1Padded == <<" ", "u", "1", " ">>
S_g1 == <<"g", "1">>
S_help == <<"h", "e", "l", "p">>
S_dryrun == <<"d", "r", "y", "r", "u", "n">>
S_on == <<"o", "n">>
S_off == <<"o", "f", "f">>
S_force == <<"f", "o", "r", "c", "e">>
S_set_group_leave == <<"s", "e", "t", "_", "g", "r", "o", "u", "p", "_", "l", "e", "a", "v", "e">>
S_delete_friend == <<"d", "e", "l", "e", "t", "e", "_", "f", "r", "i", "e", "n", "d">>
S_ok == <<"o", "k">>
S_failed == <<"f", "a", "i", "l", "e", "d">>
S_OK == <<"O", "K">>
S_1 == <<"1">>
S_true == <<"t", "r", "u", "e">>
S_yes == <<"y", "e", "s">>
S_y == <<"y">>
S_0 == <<"0">>
S_false == <<"f", "a", "l", "s", "e">>
S_no == <<"n", "o">>
S_n == <<"n">>
S_ONPadded == <<" ", "O", "N", " ">>
S_maybe == <<"m", "a", "y", "b", "e">>
S_unknown == <<"u", "n", "k", "n", "o", "w", "n">>
S_busy == <<"b", "u", "s", "y">>

T_ldg == <<"/", "l", "d", "g">>
T_help == <<"/", "l", "d", "g", " ", "h", "e", "l", "p">>
T_help_on == <<"/", "l", "d", "g", " ", "h", "e", "l", "p", " ", "o", "n">>
T_dryrun_on == <<"/", "l", "d", "g", " ", "d", "r", "y", "r", "u", "n", " ", "o", "n">>
T_dryrun_off == <<"/", "l", "d", "g", " ", "d", "r", "y", "r", "u", "n", " ", "o", "f", "f">>
T_DryRun_ON == <<" ", "/", "l", "d", "g", " ", " ", "D", "r", "y", "R", "u", "n", " ", "O", "N", " ">>
T_dryrun == <<"/", "l", "d", "g", " ", "d", "r", "y", "r", "u", "n">>
T_dryrun_force == <<"/", "l", "d", "g", " ", "d", "r", "y", "r", "u", "n", " ", "f", "o", "r", "c", "e">>
T_dryrun_on_on == <<"/", "l", "d", "g", " ", "d", "r", "y", "r", "u", "n", " ", "o", "n", " ", "o", "n">>
T_leave == <<"/", "l", "d", "g", " ", "l", "e", "a", "v", "e">>
T_leave_force == <<"/", "l", "d", "g", " ", "l", "e", "a", "v", "e", " ", "f", "o", "r", "c", "e">>
T_delete == <<"/", "l", "d", "g", " ", "d", "e", "l", "e", "t", "e">>
T_delete_force == <<"/", "l", "d", "g", " ", "d", "e", "l", "e", "t", "e", " ", "f", "o", "r", "c", "e">>
T_leave_on == <<"/", "l", "d", "g", " ", "l", "e", "a", "v", "e", " ", "o", "n">>
T_kick == <<"/", "l", "d", "g", " ", "k", "i", "c", "k">>

----------------------------------------------------------------------------
(* Python built-ins used by the code *)

UpperChars == <<"A", "B", "C", "D", "E", "F", "G", "H", "I", "J", "K", "L", "M",
                "N", "O", "P", "Q", "R", "S", "T", "U", "V", "W", "X", "Y", "Z">>
LowerChars == <<"a", "b", "c", "d", "e", "f", "g", "h", "i", "j", "k", "l", "m",
                "n", "o", "p", "q", "r", "s", "t", "u", "v", "w", "x", "y", "z">>

IsSpace(c) == c \in {" ", "\t", "\n"}

\* bool(x) of an Optional[str]: None and "" are falsy
Truthy(s) == s # None /\ s # <<>>

\* (x or "")
OrEmpty(s) == IF Truthy(s) THEN s ELSE <<>>

LowerOf ==
    [c \in {UpperChars[i] : i \in 1..Len(UpperChars)} |->
        LowerChars[CHOOSE i \in 1..Len(UpperChars) : UpperChars[i] = c]]

LowerChar(c) == IF c \in DOMAIN LowerOf THEN LowerOf[c] ELSE c

\* str.lower()
Lower(s) == [i \in 1..Len(s) |-> LowerChar(s[i])]

RECURSIVE LStrip(_)
LStrip(s) == IF s # <<>> /\ IsSpace(Head(s)) THEN LStrip(Tail(s)) ELSE s

RECURSIVE RStrip(_)
RStrip(s) == IF s # <<>> /\ IsSpace(s[Len(s)]) THEN RStrip(SubSeq(s, 1, Len(s) - 1)) ELSE s

\* str.strip()
Strip(s) == RStrip(LStrip(s))

RECURSIVE SplitAcc(_, _, _)
SplitAcc(s, cur, acc) ==
    IF s = <<>> THEN (IF cur = <<>> THEN acc ELSE Append(acc, cur))
    ELSE IF IsSpace(Head(s))
         THEN SplitAcc(Tail(s), <<>>, IF cur = <<>> THEN acc ELSE Append(acc, cur))
         ELSE SplitAcc(Tail(s), Append(cur, Head(s)), acc)

\* str.split() with no separator
Split(s) == SplitAcc(s, <<>>, <<>>)

----------------------------------------------------------------------------
(* core.py *)

DefaultMinReasonLength == 4

\* Optional[bool]
NoneB == <<>>
SomeB(b) == <<b>>

NormalizeReason(reason) == IF reason = None THEN <<>> ELSE Strip(reason)

\* bug: a configured dry-run default that cannot be switched off
GetEffectiveDryRunDefaultWins(default_dry_run, override) ==
    default_dry_run \/ (override # NoneB /\ override[1])

GetEffectiveDryRun(default_dry_run, override) ==
    IF override = NoneB THEN default_dry_run ELSE override[1]

\* dict.get(key) on a JSON object
DictGet(d, k) == IF k \in DOMAIN d THEN d[k] ELSE None

\* the f-string url
Url(host, port, action) == [host |-> host, port |-> port, path |-> action]

IsAuthFailure(status_code) == status_code \in {401, 403}

\* bug: the upper end of the 2xx range taken inclusive
IsHttpErrorOffByOne(status_code) == status_code < 200 \/ status_code > 300

IsHttpError(status_code) == status_code < 200 \/ status_code >= 300

\* call_napcat after the POST: the transport outcome is either an exception
\* (timeout, other request error) or a response (status code and body)
CallNapcat(host, port, token, action, payload, outcome) ==
    IF outcome.transport = "timeout"
    THEN [ok |-> FALSE, detail |-> [kind |-> "timeout", url |-> Url(host, port, action)], raw |-> None]
    ELSE IF outcome.transport = "error"
    THEN [ok |-> FALSE, detail |-> [kind |-> "request_failed"], raw |-> None]
    ELSE IF IsAuthFailure(outcome.status_code)
    THEN [ok |-> FALSE, detail |-> [kind |-> "auth_failed", status_code |-> outcome.status_code], raw |-> None]
    ELSE IF IsHttpError(outcome.status_code)
    THEN [ok |-> FALSE, detail |-> [kind |-> "http_error", status_code |-> outcome.status_code], raw |-> None]
    ELSE IF outcome.body.parse = "invalid"
    THEN [ok |-> FALSE, detail |-> [kind |-> "not_json"], raw |-> None]
    ELSE IF outcome.body.parse # "dict"
    THEN [ok |-> FALSE, detail |-> [kind |-> "bad_format"], raw |-> None]
    ELSE LET raw == outcome.body.value IN
         IF DictGet(raw, "status") # S_ok
         THEN [ok |-> FALSE,
               detail |-> [kind |-> "napcat_failed",
                           status |-> DictGet(raw, "status"),
                           retcode |-> IF "retcode" \in DOMAIN raw THEN raw["retcode"] ELSE <<>>,
                           message |-> IF Truthy(DictGet(raw, "message")) THEN raw["message"]
                                       ELSE IF Truthy(DictGet(raw, "wording")) THEN raw["wording"]
                                       ELSE S_unknown],
               raw |-> raw]
         ELSE [ok |-> TRUE, detail |-> [kind |-> "ok"], raw |-> raw]

GuardResult(success, message, action_type, target_id, source, executed, dry_run) ==
    [success |-> success, message |-> message, action_type |-> action_type,
     target_id |-> target_id, source |-> source, executed |-> executed, dry_run |-> dry_run]

NoCall == [action |-> None]

Returned(result) == [await |-> FALSE, result |-> result, call |-> NoCall]

\* the gates of execute_guard_action, one per `if`
SupportedAction(normalized_action) == normalized_action \in {S_leave, S_delete}

LeaveContextRejected(context) == ~context.is_group \/ ~Truthy(context.group_id)

\* bug: the group check skipped once a private target is known
DeleteContextRejectedUnlessTarget(context) ==
    context.is_group /\ ~Truthy(context.private_user_id)

DeleteContextRejected(context) == context.is_group

DeleteTargetMissing(context) == ~Truthy(context.private_user_id)

NormalizedMode(mode) == Lower(Strip(IF Truthy(mode) THEN mode ELSE S_cautious))

ReasonTooShort(normalized_mode, normalized_reason, min_reason_length) ==
    normalized_mode = S_cautious /\ Len(normalized_reason) < min_reason_length

ForceDisabled(force, allow_force) == force /\ ~allow_force

ForceNotWhitelisted(force, is_whitelisted) == force /\ ~is_whitelisted

\* what the leave and the delete branch bind before the policy gates
NapcatAction(normalized_action) ==
    IF normalized_action = S_leave THEN S_set_group_leave ELSE S_delete_friend

\* bug: the leave payload keyed by the private user instead of the group
PayloadFromPrivateUser(normalized_action, context) ==
    IF normalized_action = S_leave
    THEN [group_id |-> context.private_user_id, is_dismiss |-> FALSE]
    ELSE [user_id |-> context.private_user_id]

Payload(normalized_action, context) ==
    IF normalized_action = S_leave
    THEN [group_id |-> context.group_id, is_dismiss |-> FALSE]
    ELSE [user_id |-> context.private_user_id]

TargetId(normalized_action, context) ==
    IF normalized_action = S_leave THEN context.group_id ELSE context.private_user_id

\* execute_guard_action up to its only suspension point: either it returns a
\* GuardResult, or it suspends in `await caller(host, port, token, action, payload)`
GuardStart(req, policy) ==
    LET normalized_action == Lower(Strip(OrEmpty(req.action_type)))
        normalized_reason == NormalizeReason(req.reason)
        normalized_mode   == NormalizedMode(policy.mode)
        context           == req.context
        Reject(kind, target) ==
            Returned(GuardResult(FALSE, [kind |-> kind],
                                 normalized_action, target, req.source, FALSE, FALSE))
    IN
    IF ~SupportedAction(normalized_action)
    THEN Returned(GuardResult(FALSE, [kind |-> "unsupported_action", action_type |-> req.action_type],
                              IF Truthy(normalized_action) THEN normalized_action ELSE req.action_type,
                              None, req.source, FALSE, FALSE))
    ELSE IF normalized_action = S_leave /\ LeaveContextRejected(context)
    THEN Reject("not_group_context", None)
    ELSE IF normalized_action # S_leave /\ DeleteContextRejected(context)
    THEN Reject("is_group_context", None)
    ELSE IF normalized_action # S_leave /\ DeleteTargetMissing(context)
    THEN Reject("private_target_missing", None)
    ELSE
    LET napcat_action  == NapcatAction(normalized_action)
        payload        == Payload(normalized_action, context)
        target_id      == TargetId(normalized_action, context)
        actor          == OrEmpty(req.actor_user_id)
        is_whitelisted == actor \in policy.developer_whitelist
        dry_run        == GetEffectiveDryRun(policy.default_dry_run, policy.dry_run_override)
    IN
    IF ReasonTooShort(normalized_mode, normalized_reason, policy.min_reason_length)
    THEN Returned(GuardResult(FALSE, [kind |-> "reason_too_short", min |-> policy.min_reason_length],
                              normalized_action, target_id, req.source, FALSE, FALSE))
    ELSE IF ForceDisabled(req.force, policy.allow_force)
    THEN Reject("force_disabled", target_id)
    ELSE IF ForceNotWhitelisted(req.force, is_whitelisted)
    THEN Reject("force_whitelist_only", target_id)
    ELSE IF dry_run
    THEN Returned(GuardResult(TRUE,
                              [kind |-> "dry_run", action |-> normalized_action, target |-> target_id,
                               source |-> req.source, force |-> req.force,
                               reason |-> IF Truthy(normalized_reason) THEN normalized_reason ELSE <<"N", "/", "A">>],
                              normalized_action, target_id, req.source, FALSE, TRUE))
    ELSE [await  |-> TRUE,
          result |-> GuardResult(FALSE, [kind |-> "pending"], normalized_action, target_id,
                                 req.source, FALSE, FALSE),
          call   |-> [host |-> policy.napcat_host, port |-> policy.napcat_port,
                      token |-> policy.napcat_token, action |-> napcat_action, payload |-> payload]]

\* bug: the dry-run flag of the result read again from the process-wide
\* override after the call
GuardFinishRereadsOverride(fr, napcat) ==
    IF ~napcat.ok
    THEN GuardResult(FALSE, [kind |-> "call_failed", action |-> fr.normalized_action, detail |-> napcat.detail],
                     fr.normalized_action, fr.target_id, fr.req.source, FALSE,
                     GetEffectiveDryRun(fr.policy.default_dry_run, runtimeOverride))
    ELSE GuardResult(TRUE, [kind |-> "executed", action |-> fr.normalized_action, target |-> fr.target_id],
                     fr.normalized_action, fr.target_id, fr.req.source, TRUE,
                     GetEffectiveDryRun(fr.policy.default_dry_run, runtimeOverride))

\* execute_guard_action after `await caller(...)` returned (ok, detail, _raw)
GuardFinish(fr, napcat) ==
    IF ~napcat.ok
    THEN GuardResult(FALSE, [kind |-> "call_failed", action |-> fr.normalized_action, detail |-> napcat.detail],
                     fr.normalized_action, fr.target_id, fr.req.source, FALSE, FALSE)
    ELSE GuardResult(TRUE, [kind |-> "executed", action |-> fr.normalized_action, target |-> fr.target_id],
                     fr.normalized_action, fr.target_id, fr.req.source, TRUE, FALSE)

\* the locals that live across the await, and the calls dispatched so far
Suspended(handler, req, policy, start) ==
    [handler |-> handler, req |-> req, policy |-> policy,
     normalized_action |-> start.result.action_type,
     target_id |-> start.result.target_id, call |-> start.call, calls |-> <<start.call>>]

----------------------------------------------------------------------------
(* Remote side: what one POST can come back with *)

Timeout == [transport |-> "timeout"]
RequestError == [transport |-> "error"]
Response(status_code, body) == [transport |-> "response", status_code |-> status_code, body |-> body]

NotJson == [parse |-> "invalid"]
JsonList == [parse |-> "list"]
JsonObject(d) == [parse |-> "dict", value |-> d]

RawOk == [status |-> S_ok]
RawFailed == [status |-> S_failed, retcode |-> 100, wording |-> S_busy]
RawNoStatus == [retcode |-> 0]
RawUpperOk == [status |-> S_OK, message |-> <<>>]

Outcomes ==
    { Timeout, RequestError,
      Response(401, JsonObject(RawOk)), Response(403, NotJson),
      Response(199, JsonObject(RawOk)), Response(300, JsonObject(RawOk)),
      Response(500, NotJson),
      Response(200, NotJson), Response(200, JsonList),
      Response(200, JsonObject(RawFailed)), Response(200, JsonObject(RawNoStatus)),
      Response(200, JsonObject(RawUpperOk)),
      Response(200, JsonObject(RawOk)), Response(299, JsonObject(RawOk)) }

\* what the remote side answers in the plugin-level specification
PluginOutcomes ==
    { Timeout, Response(403, NotJson),
      Response(200, JsonObject(RawFailed)), Response(200, JsonObject(RawOk)) }

----------------------------------------------------------------------------
(* Direct evaluation: execute_guard_action called with arbitrary arguments *)

CoreActionTypes == {None, S_leave, S_LeavePadded, S_delete, S_DELETE, S_kick}
CoreActors == {S_u1, S_u2}
CoreContexts ==
    { [is_group |-> TRUE,  group_id |-> S_g1, private_user_id |-> None],
      [is_group |-> TRUE,  group_id |-> None, private_user_id |-> None],
      [is_group |-> TRUE,  group_id |-> <<>>, private_user_id |-> S_u1],
      [is_group |-> TRUE,  group_id |-> S_g1, private_user_id |-> S_u1],
      [is_group |-> FALSE, group_id |-> None, private_user_id |-> S_u1],
      [is_group |-> FALSE, group_id |-> None, private_user_id |-> None],
      [is_group |-> FALSE, group_id |-> S_g1, private_user_id |-> <<>>],
      [is_group |-> FALSE, group_id |-> S_g1, private_user_id |-> S_u1] }
CoreReasons == {None, S_blank, S_abcPadded, S_abcd}
CoreSources == {S_planner, S_command}
CoreModes == {None, <<>>, S_blank, S_cautious, S_CautiousPadded, S_normal, S_strict}
CoreWhitelists == {{}, {S_u1}}
OptionalBools == {NoneB, SomeB(TRUE), SomeB(FALSE)}
CoreMinReasonLengths == {DefaultMinReasonLength, DefaultMinReasonLength + 1}

CoreRequests ==
    [action_type : CoreActionTypes, actor_user_id : CoreActors, context : CoreContexts,
     force : BOOLEAN, reason : CoreReasons, source : CoreSources]

CorePolicies ==
    [mode : CoreModes, developer_whitelist : CoreWhitelists, allow_force : BOOLEAN,
     default_dry_run : BOOLEAN, dry_run_override : OptionalBools,
     napcat_host : {"127.0.0.1"}, napcat_port : {"3000"}, napcat_token : {""},
     min_reason_length : CoreMinReasonLengths]

NoEvent == [kind |-> "init"]
NoInput == [kind |-> "none"]

InitCore ==
    /\ runtimeOverride = NoneB
    /\ plugin_config = <<>>
    /\ inflight = EmptyBag
    /\ lastEvent = NoEvent
    /\ \E req \in CoreRequests, policy \in CorePolicies :
          coreInput = [kind |-> "call", req |-> req, policy |-> policy]

\* `await execute_guard_action(...)` from its entry to its return or its await
CoreEvaluate ==
    /\ lastEvent = NoEvent
    /\ \E req \in {coreInput.req}, policy \in {coreInput.policy} :
       \E start \in {GuardStart(req, policy)} :
       IF start.await
       THEN /\ inflight' = inflight (+) SetToBag({Suspended("core", req, policy, start)})
            /\ lastEvent' = [kind |-> "core_await"]
       ELSE /\ lastEvent' = [kind |-> "core_return", req |-> req, policy |-> policy,
                             result |-> start.result, calls |-> <<>>]
            /\ UNCHANGED inflight
    /\ UNCHANGED <<runtimeOverride, plugin_config, coreInput>>

\* the POST completes; call_napcat classifies it and execute_guard_action returns
CoreResponse(fr, outcome) ==
    /\ BagIn(fr, inflight)
    /\ fr.handler = "core"
    /\ LET napcat == CallNapcat(fr.call.host, fr.call.port, fr.call.token,
                                fr.call.action, fr.call.payload, outcome)
       IN lastEvent' = [kind |-> "core_done", req |-> fr.req, policy |-> fr.policy,
                        outcome |-> outcome, napcat |-> napcat,
                        result |-> GuardFinish(fr, napcat), calls |-> fr.calls]
    /\ inflight' = inflight (-) SetToBag({fr})
    /\ UNCHANGED <<runtimeOverride, plugin_config, coreInput>>

NextCore ==
    \/ CoreEvaluate
    \/ \E fr \in BagToSet(inflight), outcome \in Outcomes : CoreResponse(fr, outcome)

SpecCore == InitCore /\ [][NextCore]_vars

----------------------------------------------------------------------------
(* plugin.py *)

\* configuration values as the host hands them over: typed, unvalidated
BoolV(b) == [t |-> "bool", v |-> b]
StrV(str) == [t |-> "str", v |-> str]
ListV(items) == [t |-> "list", v |-> items]

\* _get_nested for the two-part keys "section.key" the plugin uses
GetNested(config, section, key, default) ==
    IF DOMAIN config = {} THEN default
    ELSE IF section \in DOMAIN config /\ key \in DOMAIN config[section]
         THEN config[section][key]
         ELSE default

ParseBoolLike(value, default) ==
    IF value.t = "bool" THEN value.v
    ELSE IF value.t = "int" THEN value.v # 0
    ELSE IF value.t = "str"
         THEN LET normalized == Lower(Strip(value.v)) IN
              IF normalized \in {S_1, S_true, S_yes, S_y, S_on} THEN TRUE
              ELSE IF normalized \in {S_0, S_false, S_no, S_n, S_off} THEN FALSE
              ELSE default
    ELSE default

ToWhitelist(values) ==
    IF values.t # "list" THEN {}
    ELSE { Strip(values.v[i]) : i \in { j \in 1..Len(values.v) : Strip(values.v[j]) # <<>> } }

\* _build_policy; `override` is the read of _RUNTIME_DRY_RUN_OVERRIDE
BuildPolicy(config, override) ==
    LET raw  == GetNested(config, "security", "mode", StrV(S_cautious))
        mode == Lower(Strip(raw.v))
    IN [mode |-> IF mode \notin {S_cautious, S_normal} THEN S_cautious ELSE mode,
        developer_whitelist |-> ToWhitelist(GetNested(config, "security", "developer_whitelist", ListV(<<>>))),
        allow_force |-> ParseBoolLike(GetNested(config, "security", "allow_force", BoolV(TRUE)), TRUE),
        default_dry_run |-> ParseBoolLike(GetNested(config, "execution", "default_dry_run", BoolV(FALSE)), FALSE),
        dry_run_override |-> override,
        napcat_host |-> "127.0.0.1", napcat_port |-> "3000", napcat_token |-> "",
        min_reason_length |-> DefaultMinReasonLength]

BuildActionContext(is_group, group_id, user_id) ==
    IF is_group
    THEN [is_group |-> TRUE, group_id |-> group_id, private_user_id |-> None]
    ELSE [is_group |-> FALSE, group_id |-> None, private_user_id |-> user_id]

\* LeaveDeleteGuardAction.execute up to the call of execute_guard_action
PlannerRequest(inp) ==
    LET fromData == NormalizeReason(inp.reason)
        context  == BuildActionContext(inp.is_group, inp.group_id, inp.user_id)
    IN [action_type   |-> IF context.is_group THEN S_leave ELSE S_delete,
        actor_user_id |-> OrEmpty(inp.user_id),
        context       |-> context,
        force         |-> FALSE,
        reason        |-> IF Truthy(fromData) THEN fromData ELSE NormalizeReason(inp.action_reasoning),
        source        |-> S_planner]

\* LeaveDeleteGuardCommand._get_actor_user_id
GetActorUserId(msg) == OrEmpty(msg.user_id)

\* LeaveDeleteGuardCommand._build_context_from_message
BuildContextFromMessage(msg) ==
    IF msg.has_group_info
    THEN [is_group |-> TRUE,
          group_id |-> IF Truthy(msg.group_id) THEN msg.group_id ELSE None,
          private_user_id |-> None]
    ELSE [is_group |-> FALSE, group_id |-> None,
          private_user_id |-> IF Truthy(msg.user_id) THEN msg.user_id ELSE None]

\* bug: the whitelist check of the command left out
AuthorizedAnyone(actor_user_id, policy) == TRUE

\* the whitelist check at the top of LeaveDeleteGuardCommand.execute
Authorized(actor_user_id, policy) == actor_user_id \in policy.developer_whitelist

NoWrite == <<>>
NoRequest == [action_type |-> None]

Replied(kind, ok) == [kind |-> kind, ok |-> ok, write |-> NoWrite, evaluate |-> FALSE, req |-> NoRequest]

\* LeaveDeleteGuardCommand.execute: what it decides before any evaluation.
\* write = <<v>> is the call _set_runtime_dry_run_override(v).
CommandDecision(msg, policy) ==
    LET text  == Strip(OrEmpty(msg.processed_plain_text))
        parts == Split(text)
        actor_user_id == GetActorUserId(msg)
    IN
    IF ~Authorized(actor_user_id, policy)
    THEN Replied("denied", FALSE)
    ELSE IF Len(parts) = 1 \/ (Len(parts) >= 2 /\ Lower(parts[2]) = S_help)
    THEN Replied("help", TRUE)
    ELSE
    LET subcmd == Lower(parts[2])
        arg1   == IF Len(parts) >= 3 THEN Lower(parts[3]) ELSE <<>>
    IN
    IF Len(parts) > 3
    THEN Replied("too_many_args", FALSE)
    ELSE IF subcmd = S_dryrun
    THEN IF arg1 \notin {S_on, S_off}
         THEN Replied("dryrun_usage", FALSE)
         ELSE [kind |-> "dryrun_set", ok |-> TRUE, write |-> SomeB(arg1 = S_on),
               evaluate |-> FALSE, req |-> NoRequest]
    ELSE IF subcmd \notin {S_leave, S_delete}
    THEN Replied("unknown_subcommand", FALSE)
    ELSE IF Truthy(arg1) /\ arg1 # S_force
    THEN Replied("bad_argument", FALSE)
    ELSE [kind |-> "evaluate", ok |-> TRUE, write |-> NoWrite, evaluate |-> TRUE,
          req |-> [action_type   |-> subcmd,
                   actor_user_id |-> actor_user_id,
                   context       |-> BuildContextFromMessage(msg),
                   force         |-> Truthy(arg1),
                   reason        |-> S_commandColon \o text,
                   source        |-> S_command]]

----------------------------------------------------------------------------
(* Host side: configurations, chat messages and planner invocations *)

ConfigEmpty == <<>>

ConfigNormal ==
    [security  |-> [mode |-> StrV(S_NormalPadded),
                    developer_whitelist |-> ListV(<<S_u1Padded, S_blank>>),
                    allow_force |-> StrV(S_off)],
     execution |-> [default_dry_run |-> StrV(S_ONPadded)]]

ConfigStrict ==
    [security  |-> [mode |-> StrV(S_strict),
                    developer_whitelist |-> ListV(<<S_u1>>)],
     execution |-> [default_dry_run |-> StrV(S_maybe)]]

Configs == {ConfigEmpty, ConfigNormal, ConfigStrict}

Message(text, has_group_info, group_id, user_id) ==
    [processed_plain_text |-> text, has_group_info |-> has_group_info,
     group_id |-> group_id, user_id |-> user_id]

\* texts the host hands to the command: never blank (the command pattern
\* requires the "/ldg" prefix)
CommandTexts ==
    { T_ldg, T_help, T_help_on, T_dryrun_on, T_dryrun_off, T_DryRun_ON, T_dryrun,
      T_dryrun_force, T_dryrun_on_on, T_leave, T_leave_force, T_delete,
      T_delete_force, T_leave_on, T_kick }

Messages ==
    { Message(text, TRUE, S_g1, S_u1) : text \in CommandTexts }
    \cup { Message(text, FALSE, None, S_u1) : text \in {T_leave, T_delete, T_delete_force, T_dryrun_off} }
    \cup { Message(text, TRUE, S_g1, S_u2) : text \in {T_dryrun_on, T_leave, T_help} }
    \cup { Message(text, FALSE, None, S_u2) : text \in {T_DryRun_ON, T_delete} }
    \cup { Message(T_leave, TRUE, <<>>, S_u1) }

PlannerInput(is_group, group_id, user_id, reason, action_reasoning) ==
    [is_group |-> is_group, group_id |-> group_id, user_id |-> user_id,
     reason |-> reason, action_reasoning |-> action_reasoning]

PlannerInputs ==
    { PlannerInput(TRUE, S_g1, S_u2, S_abcd, None),
      PlannerInput(TRUE, S_g1, S_u2, None, S_blank),
      PlannerInput(TRUE, None, S_u1, S_abcd, None),
      PlannerInput(FALSE, None, S_u1, S_abcPadded, S_abcd),
      PlannerInput(FALSE, None, S_u2, S_blank, S_abcd) }

----------------------------------------------------------------------------
(* The handlers *)

Init ==
    /\ runtimeOverride = NoneB
    /\ plugin_config \in Configs
    /\ inflight = EmptyBag
    /\ lastEvent = NoEvent
    /\ coreInput = NoInput

\* LeaveDeleteGuardAction.execute, from its entry to its return or to the await
\* inside execute_guard_action
PlannerExecute(inp) ==
    \E policy \in {BuildPolicy(plugin_config, runtimeOverride)} :
    \E req \in {PlannerRequest(inp)} :
    \E start \in {GuardStart(req, policy)} :
    /\ IF start.await
       THEN /\ BagCardinality(inflight) < MaxInFlight
            /\ inflight' = inflight (+) SetToBag({Suspended("planner", req, policy, start)})
            /\ lastEvent' = [kind |-> "planner_await", inp |-> inp, policy |-> policy]
       ELSE /\ lastEvent' = [kind |-> "planner", inp |-> inp, policy |-> policy,
                             result |-> start.result, calls |-> <<>>,
                             ret |-> <<start.result.success, start.result.message>>]
            /\ UNCHANGED inflight
    /\ UNCHANGED <<runtimeOverride, plugin_config, coreInput>>

\* LeaveDeleteGuardCommand.execute, from its entry to its return or to the await
\* inside execute_guard_action
CommandExecute(msg) ==
    \E policy \in {BuildPolicy(plugin_config, runtimeOverride)} :
    \E decision \in {CommandDecision(msg, policy)} :
    /\ IF decision.evaluate
       THEN \E start \in {GuardStart(decision.req, policy)} :
            IF start.await
            THEN /\ BagCardinality(inflight) < MaxInFlight
                 /\ inflight' = inflight (+) SetToBag({Suspended("command", decision.req, policy, start)})
                 /\ lastEvent' = [kind |-> "command_await", msg |-> msg, policy |-> policy]
                 /\ UNCHANGED runtimeOverride
            ELSE /\ lastEvent' = [kind |-> "command", msg |-> msg, policy |-> policy,
                                  decision |-> decision.kind,
                                  result |-> start.result, calls |-> <<>>,
                                  ret |-> <<start.result.success, start.result.message>>]
                 /\ UNCHANGED <<inflight, runtimeOverride>>
       ELSE /\ runtimeOverride' = IF decision.write = NoWrite THEN runtimeOverride ELSE decision.write
            /\ lastEvent' = [kind |-> "command", msg |-> msg, policy |-> policy,
                             decision |-> decision.kind,
                             ret |-> <<decision.ok, [kind |-> decision.kind]>>]
            /\ UNCHANGED inflight
    /\ UNCHANGED <<plugin_config, coreInput>>

\* the POST of a suspended planner or command evaluation completes:
\* call_napcat classifies it, execute_guard_action returns, the handler reports
Resume(fr, outcome) ==
    /\ BagIn(fr, inflight)
    /\ fr.handler \in {"planner", "command"}
    /\ \E napcat \in {CallNapcat(fr.call.host, fr.call.port, fr.call.token,
                                   fr.call.action, fr.call.payload, outcome)} :
       \E result \in {GuardFinish(fr, napcat)} :
          lastEvent' = [kind |-> "resume", handler |-> fr.handler, policy |-> fr.policy,
                        napcat_ok |-> napcat.ok, result |-> result, calls |-> fr.calls,
                        ret |-> <<result.success, result.message>>]
    /\ inflight' = inflight (-) SetToBag({fr})
    /\ UNCHANGED <<runtimeOverride, plugin_config, coreInput>>

Next ==
    \/ \E inp \in PlannerInputs : PlannerExecute(inp)
    \/ \E msg \in Messages : CommandExecute(msg)
    \/ \E fr \in BagToSet(inflight), outcome \in PluginOutcomes : Resume(fr, outcome)

Spec == Init /\ [][Next]_vars

----------------------------------------------------------------------------
(* What the specification says about the inputs, stated on the raw arguments   *)
(* (tables over the input sets above, not the code's own normalisation).      *)

IsLeaveRequest(req) == req.action_type \in {S_leave, S_LeavePadded}
IsDeleteRequest(req) == req.action_type \in {S_delete, S_DELETE}

Missing(id) == id \in {None, <<>>}

\* characters of the reason after trimming
TrimmedLength(reason) ==
    IF reason \in {None, S_blank} THEN 0
    ELSE IF reason = S_abcPadded THEN 3
    ELSE Len(reason)

\* step 3 of the evaluator's contract: only the literal "normal" (any case,
\* padded or not) is normal; empty and unrecognised modes resolve to cautious
ResolvesToCautious(mode) == mode \notin {S_normal, S_NormalPadded}

\* the modes on which the contract's resolution needs the fallback for
\* unrecognised (not merely absent) values
UnrecognisedMode(mode) == mode \in {S_blank, S_strict}

Gate1Fails(req) == ~IsLeaveRequest(req) /\ ~IsDeleteRequest(req)

Gate2Fails(req) ==
    \/ IsLeaveRequest(req) /\ (~req.context.is_group \/ Missing(req.context.group_id))
    \/ IsDeleteRequest(req) /\ (req.context.is_group \/ Missing(req.context.private_user_id))

Gate4Fails(req, policy) ==
    ResolvesToCautious(policy.mode) /\ TrimmedLength(req.reason) < policy.min_reason_length

Gate5aFails(req, policy) == req.force /\ ~policy.allow_force

Gate5bFails(req, policy) == req.force /\ req.actor_user_id \notin policy.developer_whitelist

AnyGateFails(req, policy) ==
    \/ Gate1Fails(req) \/ Gate2Fails(req) \/ Gate4Fails(req, policy)
    \/ Gate5aFails(req, policy) \/ Gate5bFails(req, policy)

\* the message of the earliest failing gate
EarliestRejection(req, policy) ==
    IF Gate1Fails(req) THEN {"unsupported_action"}
    ELSE IF Gate2Fails(req)
         THEN {"not_group_context", "is_group_context", "private_target_missing"}
    ELSE IF Gate4Fails(req, policy) THEN {"reason_too_short"}
    ELSE IF Gate5aFails(req, policy) THEN {"force_disabled"}
    ELSE {"force_whitelist_only"}

\* a direct evaluation has returned
CoreReturned == lastEvent.kind \in {"core_return", "core_done"}

CoreFrames == { fr \in BagToSet(inflight) : fr.handler = "core" }

Rejected(result) == ~result.success /\ ~result.executed /\ ~result.dry_run

----------------------------------------------------------------------------
(* Claims about execute_guard_action and call_napcat, under SpecCore *)

\* C1: whenever one of the gates 1-5 fails, the evaluation returns
\* success=false, executed=false, dryRun=false and never calls the remote
\* invoker (no call is in flight, none was made).
C1_GateFailureRejects ==
    /\ CoreReturned /\ AnyGateFails(lastEvent.req, lastEvent.policy)
          => Rejected(lastEvent.result) /\ lastEvent.calls = <<>>
    /\ \A fr \in CoreFrames : ~AnyGateFails(fr.req, fr.policy)

\* C1 on the policies whose mode the evaluator recognises or finds absent:
\* there every gate failure is a rejection without a remote call.
C1_HoldsForRecognisedModes ==
    /\ CoreReturned /\ ~UnrecognisedMode(lastEvent.policy.mode)
          /\ AnyGateFails(lastEvent.req, lastEvent.policy)
          => Rejected(lastEvent.result) /\ lastEvent.calls = <<>>
    /\ \A fr \in CoreFrames :
          ~UnrecognisedMode(fr.policy.mode) => ~AnyGateFails(fr.req, fr.policy)

\* C2: a leave outside a group context (or without a group id) and a delete
\* inside a group context (or without a private target) are rejected with
\* targetId = null and without a remote call, whatever the other fields are.
C2_CrossContextRejected ==
    /\ CoreReturned /\ ~Gate1Fails(lastEvent.req) /\ Gate2Fails(lastEvent.req)
          => /\ Rejected(lastEvent.result)
             /\ lastEvent.result.target_id = None
             /\ lastEvent.result.message.kind \in
                   {"not_group_context", "is_group_context", "private_target_missing"}
             /\ lastEvent.calls = <<>>
    /\ \A fr \in CoreFrames : ~Gate2Fails(fr.req)

C2_Witness ==
    /\ lastEvent.kind = "core_return"
    /\ IsDeleteRequest(lastEvent.req)
    /\ lastEvent.req.context.is_group
    /\ lastEvent.req.context.private_user_id = S_u1
    /\ lastEvent.req.force
    /\ lastEvent.req.actor_user_id \in lastEvent.policy.developer_whitelist
    /\ lastEvent.policy.allow_force
    /\ lastEvent.policy.mode = S_normal
    /\ lastEvent.policy.dry_run_override = SomeB(FALSE)
    /\ lastEvent.result.message.kind = "is_group_context"

\* the call and the target the specification fixes for a request
ExpectedCall(req) ==
    IF IsLeaveRequest(req)
    THEN [action |-> S_set_group_leave,
          payload |-> [group_id |-> req.context.group_id, is_dismiss |-> FALSE]]
    ELSE [action |-> S_delete_friend, payload |-> [user_id |-> req.context.private_user_id]]

ExpectedTarget(req) ==
    IF IsLeaveRequest(req) THEN req.context.group_id ELSE req.context.private_user_id

CallMatches(call, req) ==
    /\ call.action = ExpectedCall(req).action
    /\ call.payload = ExpectedCall(req).payload
    /\ IsLeaveRequest(req) => req.context.is_group
    /\ IsDeleteRequest(req) => ~req.context.is_group

\* C3: every remote call is "set_group_leave" {group_id, is_dismiss: false}
\* for a leave in a group context, or "delete_friend" {user_id} for a delete in
\* a private context, and the result's targetId is that same id.
C3_CallFollowsContext ==
    /\ \A fr \in CoreFrames :
          /\ IsLeaveRequest(fr.req) \/ IsDeleteRequest(fr.req)
          /\ \A i \in 1..Len(fr.calls) : CallMatches(fr.calls[i], fr.req)
    /\ lastEvent.kind = "core_done"
          => /\ \A i \in 1..Len(lastEvent.calls) : CallMatches(lastEvent.calls[i], lastEvent.req)
             /\ lastEvent.result.target_id = ExpectedTarget(lastEvent.req)

C3_Witness ==
    /\ lastEvent.kind = "core_done"
    /\ lastEvent.req.action_type = S_LeavePadded
    /\ lastEvent.req.context = [is_group |-> TRUE, group_id |-> S_g1, private_user_id |-> S_u1]
    /\ Len(lastEvent.calls) = 1
    /\ lastEvent.result.executed
    /\ lastEvent.result.target_id = S_g1

\* the effective dry-run the specification fixes for a policy
ExpectedDryRun(policy) ==
    \/ policy.dry_run_override = SomeB(TRUE)
    \/ policy.dry_run_override = NoneB /\ policy.default_dry_run

\* the responses the specification counts as success
OutcomeIsOk(outcome) ==
    /\ outcome.transport = "response"
    /\ outcome.status_code \in 200..299
    /\ outcome.body.parse = "dict"
    /\ "status" \in DOMAIN outcome.body.value
    /\ outcome.body.value["status"] = S_ok

AfterCall(e) ==
    /\ Len(e.calls) = 1
    /\ e.result.executed <=> OutcomeIsOk(e.outcome)
    /\ e.result.executed => e.result.success /\ ~e.result.dry_run
    /\ ~OutcomeIsOk(e.outcome)
          => /\ Rejected(e.result)
             /\ e.result.message.kind = "call_failed"
             /\ e.result.message.detail = e.napcat.detail

\* C4: the remote invoker is called at most once per evaluation, only after
\* gates 1-5 all pass and the effective dry-run is false; executed=true iff
\* that call was made and returned ok (then success=true, dryRun=false), and a
\* not-ok call gives success=false, executed=false, dryRun=false with the
\* invoker's detail in the message.
C4_SingleCallAfterGates ==
    /\ \A fr \in CoreFrames :
          /\ Len(fr.calls) = 1
          /\ ~AnyGateFails(fr.req, fr.policy)
          /\ ~ExpectedDryRun(fr.policy)
    /\ lastEvent.kind = "core_return" => lastEvent.calls = <<>> /\ ~lastEvent.result.executed
    /\ lastEvent.kind = "core_done" => AfterCall(lastEvent)

\* C4 on the policies whose mode the evaluator recognises or finds absent.
C4_HoldsForRecognisedModes ==
    /\ \A fr \in CoreFrames :
          /\ Len(fr.calls) = 1
          /\ ~UnrecognisedMode(fr.policy.mode) => ~AnyGateFails(fr.req, fr.policy)
          /\ ~ExpectedDryRun(fr.policy)
    /\ lastEvent.kind = "core_return" => lastEvent.calls = <<>> /\ ~lastEvent.result.executed
    /\ lastEvent.kind = "core_done" => AfterCall(lastEvent)

ReasonGateApplies(req, policy) ==
    /\ ~Gate1Fails(req) /\ ~Gate2Fails(req)
    /\ TrimmedLength(req.reason) < policy.min_reason_length

\* C5: a mode that is empty, or anything but "cautious"/"normal", after
\* trimming and lowercasing is treated as cautious: a request past gates 1-2
\* whose reason is shorter than minReasonLength is rejected by the reason gate.
C5_UnrecognisedModeIsCautious ==
    /\ CoreReturned /\ lastEvent.policy.mode \in {None, <<>>, S_blank, S_strict}
          /\ ReasonGateApplies(lastEvent.req, lastEvent.policy)
          => Rejected(lastEvent.result) /\ lastEvent.result.message.kind = "reason_too_short"
    /\ \A fr \in CoreFrames :
          fr.policy.mode \in {None, <<>>, S_blank, S_strict}
             => ~ReasonGateApplies(fr.req, fr.policy)

\* C5 on the modes that are absent before trimming (None or ""), where the
\* evaluator's `or "cautious"` applies.
C5_AbsentModeIsCautious ==
    /\ CoreReturned /\ lastEvent.policy.mode \in {None, <<>>}
          /\ ReasonGateApplies(lastEvent.req, lastEvent.policy)
          => Rejected(lastEvent.result) /\ lastEvent.result.message.kind = "reason_too_short"
    /\ \A fr \in CoreFrames :
          fr.policy.mode \in {None, <<>>} => ~ReasonGateApplies(fr.req, fr.policy)

\* C6: the rejection returned is that of the earliest failing gate in the
\* order action type, context, reason length, allowForce, whitelist; so force
\* with allowForce=false is "force disabled" even for a non-whitelisted actor,
\* and a too-short reason in cautious mode comes before any force rejection.
C6_EarliestGateReported ==
    CoreReturned /\ AnyGateFails(lastEvent.req, lastEvent.policy)
       => lastEvent.result.message.kind \in EarliestRejection(lastEvent.req, lastEvent.policy)

\* C6 on the policies whose mode the evaluator recognises or finds absent.
C6_HoldsForRecognisedModes ==
    CoreReturned /\ ~UnrecognisedMode(lastEvent.policy.mode)
       /\ AnyGateFails(lastEvent.req, lastEvent.policy)
       => lastEvent.result.message.kind \in EarliestRejection(lastEvent.req, lastEvent.policy)

\* C7: past gates 1-5 the effective dry-run is the override when it is set
\* (true or false, whatever the default is) and the default otherwise; when it
\* is true the result is success, not executed, dryRun, without a remote call;
\* when it is false the remote invoker is called.
C7_DryRunPrecedence ==
    /\ CoreReturned /\ ~AnyGateFails(lastEvent.req, lastEvent.policy)
          => /\ lastEvent.result.dry_run <=> ExpectedDryRun(lastEvent.policy)
             /\ ExpectedDryRun(lastEvent.policy)
                   => /\ lastEvent.kind = "core_return"
                      /\ lastEvent.result.success /\ ~lastEvent.result.executed
                      /\ lastEvent.calls = <<>>
             /\ ~ExpectedDryRun(lastEvent.policy)
                   => lastEvent.kind = "core_done" /\ Len(lastEvent.calls) = 1
    /\ \A fr \in CoreFrames : ~ExpectedDryRun(fr.policy)

C7_Witness ==
    /\ lastEvent.kind = "core_done"
    /\ ~AnyGateFails(lastEvent.req, lastEvent.policy)
    /\ lastEvent.policy.default_dry_run
    /\ lastEvent.policy.dry_run_override = SomeB(FALSE)
    /\ lastEvent.result.executed
    /\ ~lastEvent.result.dry_run

\* the classification of section 4.2, first match wins
ExpectedDetailKinds(outcome) ==
    IF outcome.transport = "timeout" THEN {"timeout"}
    ELSE IF outcome.transport = "error" THEN {"request_failed"}
    ELSE IF outcome.status_code = 401 \/ outcome.status_code = 403 THEN {"auth_failed"}
    ELSE IF outcome.status_code \notin 200..299 THEN {"http_error"}
    ELSE IF outcome.body.parse # "dict" THEN {"not_json", "bad_format"}
    ELSE IF ~OutcomeIsOk(outcome) THEN {"napcat_failed"}
    ELSE {"ok"}

\* C8: call_napcat classifies a transport outcome in the stated order; ok is
\* true iff the status is in [200,300), the body is an object and its status
\* field is "ok"; the raw response is returned only for an object body of a
\* 2xx response (remote-reported failure, or success).
C8_Classification ==
    lastEvent.kind = "core_done"
       => /\ lastEvent.napcat.detail.kind \in ExpectedDetailKinds(lastEvent.outcome)
          /\ lastEvent.napcat.ok <=> OutcomeIsOk(lastEvent.outcome)
          /\ lastEvent.napcat.detail.kind \in {"auth_failed", "http_error"}
                => lastEvent.napcat.detail.status_code = lastEvent.outcome.status_code
          /\ IF lastEvent.napcat.detail.kind \in {"napcat_failed", "ok"}
             THEN lastEvent.napcat.raw = lastEvent.outcome.body.value
             ELSE lastEvent.napcat.raw = None

C8_Witness ==
    /\ lastEvent.kind = "core_done"
    /\ lastEvent.outcome = Response(200, JsonObject(RawFailed))
    /\ ~lastEvent.napcat.ok
    /\ lastEvent.napcat.detail.kind = "napcat_failed"
    /\ lastEvent.napcat.raw = RawFailed

----------------------------------------------------------------------------
(* Claims about the dry-run override, under Spec *)

\* what the configurations above mean, read off the values they hold
ExpectedWhitelist(config) == IF DOMAIN config = {} THEN {} ELSE {S_u1}

ExpectedDefaultDryRun(config) ==
    DOMAIN config # {} /\ "mode" \in DOMAIN config["security"]
       /\ config["security"]["mode"] = StrV(S_NormalPadded)

\* the effective dry-run of an evaluation that reads `override`
ExpectedEffective(config, override) ==
    \/ override = SomeB(TRUE)
    \/ override = NoneB /\ ExpectedDefaultDryRun(config)

IsDryrunOn(text) == text \in {T_dryrun_on, T_DryRun_ON}
IsDryrunOff(text) == text = T_dryrun_off

\* the step was a "/ldg dryrun on|off" sent by a whitelisted actor
AdminWrite(e) ==
    /\ e.kind = "command"
    /\ IsDryrunOn(e.msg.processed_plain_text) \/ IsDryrunOff(e.msg.processed_plain_text)
    /\ e.msg.user_id \in ExpectedWhitelist(plugin_config)

Written(e) == SomeB(IsDryrunOn(e.msg.processed_plain_text))

\* the step started an evaluation that dispatched its remote call
Dispatched(e) == e.kind \in {"planner_await", "command_await"}

\* the step ran an evaluation that returned without suspending
EvaluatedAtOnce(e) ==
    \/ e.kind = "planner"
    \/ e.kind = "command" /\ e.decision = "evaluate"

\* C9: an evaluation decides on the one value of the override it read: it
\* dispatches a remote call only if that value made the effective dry-run
\* false, no result has dryRun=true and executed=true, and a write made while
\* the call is in flight changes neither dryRun nor executed of its result.
C9_DecidesOnValueRead ==
    /\ Dispatched(lastEvent) => ~ExpectedEffective(plugin_config, runtimeOverride)
    /\ EvaluatedAtOnce(lastEvent)
          => /\ ~lastEvent.result.executed
             /\ lastEvent.calls = <<>>
             /\ lastEvent.result.success => lastEvent.result.dry_run
             /\ lastEvent.result.dry_run => ExpectedEffective(plugin_config, runtimeOverride)
    /\ lastEvent.kind = "resume"
          => /\ ~lastEvent.result.dry_run
             /\ lastEvent.result.executed <=> lastEvent.napcat_ok
             /\ lastEvent.result.success <=> lastEvent.napcat_ok
             /\ Len(lastEvent.calls) = 1

\* a write arrived while the call was in flight, and the evaluation executed
C9_Witness ==
    /\ lastEvent.kind = "resume"
    /\ runtimeOverride = SomeB(TRUE)
    /\ lastEvent.policy.dry_run_override = NoneB
    /\ lastEvent.result.executed
    /\ BagCardinality(inflight) = 1

C10_Step ==
    /\ runtimeOverride' # runtimeOverride => AdminWrite(lastEvent')
    /\ AdminWrite(lastEvent') => runtimeOverride' = Written(lastEvent')
    /\ Dispatched(lastEvent') => ~ExpectedEffective(plugin_config, runtimeOverride)
    /\ EvaluatedAtOnce(lastEvent') /\ lastEvent'.result.success
          => ExpectedEffective(plugin_config, runtimeOverride)

\* C10: the override is unset at start; it changes only by a "dryrun on|off"
\* command of a whitelisted actor, which sets it to the value named; every
\* other step leaves it as it is, and an evaluation observes the value
\* written last.
C10_OverrideLifecycle == (runtimeOverride = NoneB) /\ [][C10_Step]_vars

\* an evaluation started after "dryrun on" and "dryrun off" runs for real
\* although the configured default is dry-run
C10_Witness ==
    /\ Dispatched(lastEvent)
    /\ ExpectedDefaultDryRun(plugin_config)
    /\ runtimeOverride = SomeB(FALSE)

====
